---- MODULE Spec2Model ----
(***************************************************************************)
(* Card indexing and deduplicated semantic search of the business-card     *)
(* vector database (src/src/search_engine.py, BusinessCardVectorDB).       *)
(*                                                                         *)
(* Representation.                                                         *)
(*  - A Python str is a sequence of atomic tokens; concatenation and       *)
(*    f-string formatting are \o.  The separators "_" and "-" and the JSON *)
(*    punctuation are tokens of their own.                                 *)
(*  - A Python dict is a function whose DOMAIN is the set of its keys, so  *)
(*    an absent key is a key outside the DOMAIN; {} is the empty function. *)
(*  - A Python list is a sequence.                                         *)
(*  - A distance is an integer number of tenths (1.0 is 10).               *)
(***************************************************************************)
EXTENDS Integers, Sequences, FiniteSets, TLC

VARIABLES store, storeUp, added, last

vars == <<store, storeUp, added, last>>

(***************************************************************************)
(* Bounds of the model.                                                    *)
(***************************************************************************)
MaxCards == 2

MaxNumResults == 2

(***************************************************************************)
(* Program constants.                                                      *)
(***************************************************************************)
NumSlots == 4

OverfetchFactor == 4

DefaultDistance == 10

(***************************************************************************)
(* dict helpers: d.get(k, default), d[k] is defined only when HasKey.      *)
(***************************************************************************)
EmptyDict == <<>>

HasKey(d, k) == k \in DOMAIN d

Get(d, k, default) == IF k \in DOMAIN d THEN d[k] ELSE default

(***************************************************************************)
(* The Records the operations are called with.  card_json is what          *)
(* BusinessCardProcessor.extract_from_image returns: image_metadata (hash, *)
(* base64) around the dict parsed from the extractor's reply.              *)
(***************************************************************************)
CardJson(hash, extracted) ==
    [image_metadata |-> [hash |-> hash, base64 |-> <<"b64">>],
     extracted_info |-> extracted]

Valued(s) == [value |-> s]

Primary(name, title, company) ==
    [name |-> Valued(name), job_title |-> Valued(title), company |-> company]

\* A card with contact lists and a social-media handle.
RecAda ==
    CardJson(<<"h1">>,
             [primary_info |->
                  Primary(<<"Ada">>, <<"Engineer">>, [text_value |-> <<"Acme">>]),
              contact_info |-> [emails |-> <<Valued(<<"a@x">>)>>,
                                addresses |-> <<Valued(<<"London">>)>>],
              digital_presence |->
                  [social_media |->
                       <<[platform |-> <<"linkedin">>, handle |-> <<"ada">>]>>]])

\* The same name and the same image hash as RecAda, other content.
RecAdaRetitled ==
    CardJson(<<"h1">>,
             [primary_info |->
                  Primary(<<"Ada">>, <<"Director">>, [text_value |-> <<"Acme">>]),
              contact_info |-> [emails |-> <<Valued(<<"a@y">>)>>,
                                addresses |-> <<Valued(<<"Paris">>)>>]])

\* The same name as RecAda, another image; contact_info absent.
RecAdaOtherImage ==
    CardJson(<<"h2">>,
             [primary_info |-> Primary(<<"Ada">>, <<"Engineer">>, EmptyDict),
              digital_presence |-> [website |-> Valued(<<"w.io">>)]])

\* A name that holds an underscore; contact_info and digital_presence absent.
RecBob ==
    CardJson(<<"h3">>,
             [primary_info |->
                  Primary(<<"Bob", "_", "Jr">>, <<"Chef">>, EmptyDict),
              contextual_summary |->
                  [professional_summary |-> <<"cooks">>,
                   industry_inference |-> <<"Food">>,
                   seniority_estimate |-> <<"Senior">>]])

\* The extractor returned no usable data: process_llm_response gave {}.
RecEmpty == CardJson(<<"h4">>, EmptyDict)

\* The list-valued fields are present and empty.
RecEmptyLists ==
    CardJson(<<"h5">>,
             [primary_info |-> Primary(<<"Eve">>, <<"Analyst">>, EmptyDict),
              contact_info |-> [emails |-> <<>>, addresses |-> <<>>],
              digital_presence |-> [social_media |-> <<>>]])

\* primary_info holds a name and a job title, no company.
RecNoCompany ==
    CardJson(<<"h6">>,
             [primary_info |-> [name |-> Valued(<<"Cy">>),
                                job_title |-> Valued(<<"Clerk">>)]])

Records ==
    {RecAda, RecAdaRetitled, RecAdaOtherImage, RecBob, RecEmpty, RecEmptyLists,
     RecNoCompany}

(***************************************************************************)
(* json.dumps and json.loads.  The text is a sequence of tokens: the       *)
(* punctuation { } [ ] : , and ", a key, or a token of a string value.     *)
(* dumps walks the value by the Record schema (which keys hold a dict, a   *)
(* list of dicts or a str); loads is driven by the tokens alone.           *)
(***************************************************************************)
Quote == "\""

KeyOrder ==
    <<"image_metadata", "hash", "base64", "extracted_info", "primary_info",
      "name", "job_title", "company", "text_value", "contact_info", "emails",
      "addresses", "digital_presence", "website", "social_media", "platform",
      "handle", "contextual_summary", "professional_summary",
      "industry_inference", "seniority_estimate", "value">>

DictKeys ==
    {"image_metadata", "extracted_info", "primary_info", "name", "job_title",
     "company", "contact_info", "digital_presence", "website",
     "contextual_summary"}

ListKeys == {"emails", "addresses", "social_media"}

KindOf(k) ==
    IF k \in DictKeys THEN "dict" ELSE IF k \in ListKeys THEN "list" ELSE "str"

RECURSIVE DumpsValue(_, _), DumpsMembers(_, _, _), DumpsElements(_, _)

DumpsValue(kind, v) ==
    CASE kind = "dict" -> <<"{">> \o DumpsMembers(v, 1, TRUE) \o <<"}">>
      [] kind = "list" -> <<"[">> \o DumpsElements(v, 1) \o <<"]">>
      [] OTHER -> <<Quote>> \o v \o <<Quote>>

DumpsMembers(d, i, first) ==
    IF i > Len(KeyOrder) THEN <<>>
    ELSE LET k == KeyOrder[i]
         IN IF k \in DOMAIN d
            THEN (IF first THEN <<>> ELSE <<",">>)
                 \o <<Quote, k, Quote, ":">>
                 \o DumpsValue(KindOf(k), d[k])
                 \o DumpsMembers(d, i + 1, FALSE)
            ELSE DumpsMembers(d, i + 1, first)

DumpsElements(l, i) ==
    IF i > Len(l) THEN <<>>
    ELSE (IF i > 1 THEN <<",">> ELSE <<>>)
         \o DumpsValue("dict", l[i])
         \o DumpsElements(l, i + 1)

JsonDumps(v) == DumpsValue("dict", v)

\* The outcome of a failed parse: json.JSONDecodeError.
ParseFail == [ok |-> FALSE, val |-> <<>>, next |-> 0]

RECURSIVE ParseValue(_, _), ParseString(_, _, _), ParseMembers(_, _, _),
          ParseElements(_, _, _)

ParseValue(t, i) ==
    IF i > Len(t) THEN ParseFail
    ELSE CASE t[i] = "{" ->
                IF i + 1 <= Len(t) /\ t[i + 1] = "}"
                THEN [ok |-> TRUE, val |-> EmptyDict, next |-> i + 2]
                ELSE ParseMembers(t, i + 1, EmptyDict)
           [] t[i] = "[" ->
                IF i + 1 <= Len(t) /\ t[i + 1] = "]"
                THEN [ok |-> TRUE, val |-> <<>>, next |-> i + 2]
                ELSE ParseElements(t, i + 1, <<>>)
           [] t[i] = Quote -> ParseString(t, i + 1, <<>>)
           [] OTHER -> ParseFail

ParseString(t, i, acc) ==
    IF i > Len(t) THEN ParseFail
    ELSE IF t[i] = Quote THEN [ok |-> TRUE, val |-> acc, next |-> i + 1]
    ELSE ParseString(t, i + 1, Append(acc, t[i]))

ParseMembers(t, i, acc) ==
    IF i + 3 > Len(t) THEN ParseFail
    ELSE IF t[i] # Quote \/ t[i + 2] # Quote \/ t[i + 3] # ":" THEN ParseFail
    ELSE LET k == t[i + 1]
             r == ParseValue(t, i + 4)
         IN IF ~r.ok \/ r.next > Len(t) THEN ParseFail
            ELSE LET acc2 == (k :> r.val) @@ acc
                 IN CASE t[r.next] = "," -> ParseMembers(t, r.next + 1, acc2)
                      [] t[r.next] = "}" ->
                           [ok |-> TRUE, val |-> acc2, next |-> r.next + 1]
                      [] OTHER -> ParseFail

ParseElements(t, i, acc) ==
    LET r == ParseValue(t, i)
    IN IF ~r.ok \/ r.next > Len(t) THEN ParseFail
       ELSE LET acc2 == Append(acc, r.val)
            IN CASE t[r.next] = "," -> ParseElements(t, r.next + 1, acc2)
                 [] t[r.next] = "]" ->
                      [ok |-> TRUE, val |-> acc2, next |-> r.next + 1]
                 [] OTHER -> ParseFail

\* json.loads(text): [ok, val]; ok = FALSE is json.JSONDecodeError.
ParseText(t) ==
    LET r == ParseValue(t, 1)
    IN IF r.ok /\ r.next = Len(t) + 1
       THEN [ok |-> TRUE, val |-> r.val]
       ELSE [ok |-> FALSE, val |-> <<>>]

JsonLoads(t) == ParseText(t)

(***************************************************************************)
(* process_business_card: the Fragment Composer.                           *)
(***************************************************************************)
ExtractedOf(card_json) == Get(card_json, "extracted_info", EmptyDict)

PrimaryOf(card_json) == Get(ExtractedOf(card_json), "primary_info", EmptyDict)

ContactOf(card_json) == Get(ExtractedOf(card_json), "contact_info", EmptyDict)

DigitalOf(card_json) ==
    Get(ExtractedOf(card_json), "digital_presence", EmptyDict)

ContextualOf(card_json) ==
    Get(ExtractedOf(card_json), "contextual_summary", EmptyDict)

\* d[k1][k2] raises KeyError.
Missing2(d, k1, k2) == ~HasKey(d, k1) \/ ~HasKey(d[k1], k2)

\* contact.get(key, [{}]): the list whose element [0] is read.
ContactList(card_json, key) == Get(ContactOf(card_json), key, <<EmptyDict>>)

SocialList(card_json) == Get(DigitalOf(card_json), "social_media", <<>>)

\* The exception process_business_card raises on card_json, in the order the
\* code evaluates its subscripts, or "none".
ProcessError(card_json) ==
    LET primary == PrimaryOf(card_json)
        social == SocialList(card_json)
    IN IF Missing2(primary, "name", "value") THEN "KeyError"
       ELSE IF Missing2(primary, "job_title", "value") THEN "KeyError"
       ELSE IF Len(ContactList(card_json, "addresses")) = 0 THEN "IndexError"
       ELSE IF Len(ContactList(card_json, "emails")) = 0 THEN "IndexError"
       ELSE IF \E j \in 1..Len(social) :
                   ~HasKey(social[j], "platform") \/ ~HasKey(social[j], "handle")
            THEN "KeyError"
       ELSE IF ~HasKey(primary, "company") THEN "KeyError"
       ELSE IF Missing2(card_json, "image_metadata", "hash") THEN "KeyError"
       ELSE IF Missing2(card_json, "image_metadata", "base64") THEN "KeyError"
       ELSE "none"

\* contact.get(key, [{}])[0].get('value', '')
FirstValue(card_json, key) ==
    Get(ContactList(card_json, key)[1], "value", <<>>)

WebsiteOf(card_json) ==
    Get(Get(DigitalOf(card_json), "website", EmptyDict), "value", <<>>)

IndustryOf(card_json) == Get(ContextualOf(card_json), "industry_inference", <<>>)

SeniorityOf(card_json) ==
    Get(ContextualOf(card_json), "seniority_estimate", <<>>)

RECURSIVE JoinSocial(_, _)

\* ', '.join(f'{sm["platform"]}:{sm["handle"]}' for sm in social)
JoinSocial(social, j) ==
    IF j > Len(social) THEN <<>>
    ELSE (IF j > 1 THEN <<", ">> ELSE <<>>)
         \o social[j].platform \o <<":">> \o social[j].handle
         \o JoinSocial(social, j + 1)

\* The four fragments; defined when ProcessError is "none".
Documents(card_json) ==
    LET primary == PrimaryOf(card_json)
    IN << primary.name.value \o <<" is a ">> \o primary.job_title.value
            \o <<" in ">> \o IndustryOf(card_json) \o <<"based in ">>
            \o FirstValue(card_json, "addresses") \o <<".">>,
          <<"Contact: ">> \o FirstValue(card_json, "emails")
            \o <<" | Location: ">> \o FirstValue(card_json, "addresses")
            \o <<" | Website: ">> \o WebsiteOf(card_json),
          <<"Social media: ">> \o JoinSocial(SocialList(card_json), 1),
          <<"professional_summary: ">>
            \o Get(ContextualOf(card_json), "professional_summary", <<>>)
            \o <<" expertise in ">> \o IndustryOf(card_json)
            \o <<" and ">> \o SeniorityOf(card_json) >>

\* The serialized original stored for later retrieval.
SourceJsonExtractedOnly(card_json) == JsonDumps(ExtractedOf(card_json))

SourceJson(card_json) == JsonDumps(card_json)

\* The metadata block; defined when ProcessError is "none".
MetadataOf(card_json) ==
    LET primary == PrimaryOf(card_json)
    IN [name |-> primary.name.value,
        job_title |-> primary.job_title.value,
        company |-> Get(primary.company, "text_value", <<>>),
        email |-> FirstValue(card_json, "emails"),
        location |-> FirstValue(card_json, "addresses"),
        website |-> WebsiteOf(card_json),
        industry |-> IndustryOf(card_json),
        seniority |-> SeniorityOf(card_json),
        image_hash |-> card_json.image_metadata.hash,
        source_json |-> SourceJson(card_json)]

MetadataKeys ==
    {"name", "job_title", "company", "email", "location", "website",
     "industry", "seniority", "image_hash", "source_json"}

\* What process_business_card(card_json) does: raised is the exception that
\* leaves it, or "none".
Compose(card_json) ==
    LET err == ProcessError(card_json)
    IN IF err # "none"
       THEN [raised |-> err, documents |-> <<>>, metadata |-> EmptyDict]
       ELSE [raised |-> "none",
             documents |-> Documents(card_json),
             metadata |-> MetadataOf(card_json)]

\* Compose on each of the Records, computed once.
Composed == [r \in Records |-> Compose(r)]

process_business_card(card_json) ==
    IF card_json \in Records THEN Composed[card_json] ELSE Compose(card_json)

(***************************************************************************)
(* The Identity Scheme.                                                    *)
(***************************************************************************)
\* An identity made of the name alone.
CardIdNameOnly(metadata) == metadata.name

\* card_id = f"{metadata['name']}-{metadata['image_hash']}"
CardId(metadata) == metadata.name \o <<"-">> \o metadata.image_hash

SlotToken(i) == ToString(i)

\* f"{card_id}_{i}"
FragmentId(card_id, i) == card_id \o <<"_", SlotToken(i)>>

\* [f"{card_id}_0", ..., f"{card_id}_3"]
\* Identifiers that reuse slot 0 for the last fragment.
FragmentIdsWrapped(card_id) ==
    [j \in 1..NumSlots |-> FragmentId(card_id, (j - 1) % (NumSlots - 1))]

FragmentIds(card_id) == [j \in 1..NumSlots |-> FragmentId(card_id, j - 1)]

RECURSIVE LastIndexOf(_, _, _)

\* The greatest position of token c in s at or below i, or 0.
LastIndexOf(s, c, i) ==
    IF i = 0 THEN 0 ELSE IF s[i] = c THEN i ELSE LastIndexOf(s, c, i - 1)

\* fragment_id.rsplit("_", 1)[0]
\* A split at the first underscore: fragment_id.split("_")[0]
StripSlotAtFirst(fragment_id) ==
    LET under == {p \in 1..Len(fragment_id) : fragment_id[p] = "_"}
    IN IF under = {} THEN fragment_id
       ELSE SubSeq(fragment_id, 1,
                   (CHOOSE p \in under : \A o \in under : p <= o) - 1)

StripSlot(fragment_id) ==
    LET p == LastIndexOf(fragment_id, "_", Len(fragment_id))
    IN IF p = 0 THEN fragment_id ELSE SubSeq(fragment_id, 1, p - 1)

(***************************************************************************)
(* The collection of the vector store (chromadb).  A row is one fragment:  *)
(* its identifier, its document and its copy of the metadata; the rows are *)
(* kept in insertion order.                                                *)
(***************************************************************************)
Range(f) == {f[j] : j \in DOMAIN f}

StoredIds(st) == {st[j].id : j \in 1..Len(st)}

NewRows(ids, documents, metadatas) ==
    [j \in 1..Len(ids) |->
        [id |-> ids[j], document |-> documents[j], metadata |-> metadatas[j]]]

\* A collection that appends whatever it is given.
CollectionAddAppend(st, ids, documents, metadatas) ==
    st \o NewRows(ids, documents, metadatas)

\* A collection that rewrites the first row it is given when it holds its
\* identifier, and keeps the other stored rows.
CollectionAddRewriteFirst(st, ids, documents, metadatas) ==
    LET rows == NewRows(ids, documents, metadatas)
        Fresh(r) == r.id \notin StoredIds(st)
        kept == [j \in 1..Len(st) |->
                    IF Len(rows) > 0 /\ st[j].id = rows[1].id THEN rows[1]
                    ELSE st[j]]
    IN kept \o SelectSeq(rows, Fresh)

\* collection.add(documents, metadatas, ids): a row whose identifier the
\* collection already holds is not written; the stored row stays.
CollectionAdd(st, ids, documents, metadatas) ==
    LET Fresh(r) == r.id \notin StoredIds(st)
    IN st \o SelectSeq(NewRows(ids, documents, metadatas), Fresh)

\* collection.get(ids=ids, include=["metadatas"])["metadatas"]
CollectionGet(st, ids) ==
    LET Wanted(r) == r.id \in Range(ids)
        rows == SelectSeq(st, Wanted)
    IN [j \in 1..Len(rows) |-> rows[j].metadata]

(***************************************************************************)
(* get_card_by_id                                                          *)
(***************************************************************************)
EmptyJsonText == <<"{", "}">>

\* The value returned when none of the identifiers resolves.
EmptyCard ==
    [raised |-> "none", found |-> FALSE, metadata |-> EmptyDict,
     original_json |-> EmptyJsonText, image_base64 |-> <<>>]

get_card_by_id(st, card_id) ==
    LET metadatas == CollectionGet(st, FragmentIds(card_id))
    IN IF Len(metadatas) = 0 THEN EmptyCard
       ELSE LET metadata == metadatas[1]
                parsed == JsonLoads(Get(metadata, "source_json", EmptyJsonText))
            IN IF ~parsed.ok
               THEN [raised |-> "JSONDecodeError", found |-> TRUE,
                     metadata |-> metadata, original_json |-> <<>>,
                     image_base64 |-> <<>>]
               ELSE [raised |-> "none", found |-> TRUE,
                     metadata |-> metadata, original_json |-> parsed.val,
                     image_base64 |-> Get(metadata, "image_base64", <<>>)]

(***************************************************************************)
(* collection.query: the nearest-neighbour lookup.  The embedding and the  *)
(* index are opaque, so the order of the hits is an input of the search: a *)
(* query q picks one ranking of the rows (insertion order or slot by slot, *)
(* rotated to start at a chosen row) with its ascending distances.         *)
(***************************************************************************)
Min(a, b) == IF a <= b THEN a ELSE b

RankModes == {"rows", "slots"}

BaseOrder(n, mode) ==
    LET c == n \div NumSlots
    IN IF mode = "slots" /\ n % NumSlots = 0
       THEN [j \in 1..n |-> ((j - 1) % c) * NumSlots + ((j - 1) \div c) + 1]
       ELSE [j \in 1..n |-> j]

Ranking(n, q) ==
    LET base == BaseOrder(n, q.mode)
    IN [j \in 1..n |-> base[((q.start + (j - 1)) % n) + 1]]

\* The distance of the j-th hit: ascending, with ties between neighbours.
DistanceAt(q, j) == (q.start % 3) + ((j + 1) \div 2)

\* The rankings start at a row of the first card or at the head of the
\* second.
Queries(st) ==
    [mode : RankModes,
     start : 0..(IF Len(st) = 0 THEN 0 ELSE Min(Len(st) - 1, NumSlots))]

\* collection.query(query_texts=[...], n_results=n_results,
\*                  include=["documents", "metadatas", "distances"])
CollectionQuery(st, n_results, q) ==
    IF n_results = 0 THEN [ids |-> <<>>, distances |-> <<>>]
    ELSE LET rank == Ranking(Len(st), q)
         IN [ids |-> [j \in 1..n_results |-> st[rank[j]].id],
             distances |-> [j \in 1..n_results |-> DistanceAt(q, j)]]

(***************************************************************************)
(* search_cards                                                            *)
(***************************************************************************)
AlreadySeenNever(card_id, seen_cards) == FALSE

\* card_id in seen_cards
AlreadySeen(card_id, seen_cards) == card_id \in seen_cards

HitSimilarity(distances, i) ==
    IF Len(distances) > i - 1 THEN DefaultDistance - distances[i]
    ELSE DefaultDistance

\* distances[0][i] if len(distances[0]) > i else 1.0  (i counts from 1 here)
HitDistance(distances, i) ==
    IF Len(distances) > i - 1 THEN distances[i] ELSE DefaultDistance

NoDocumentsNever(all_ids) == FALSE

\* not all_ids
NoDocuments(all_ids) == Len(all_ids) = 0

\* A loop that stops one result late.
EnoughResultsOneLate(results, num_results) == Len(results) > num_results

\* len(formatted_results) >= num_results
EnoughResults(results, num_results) == Len(results) >= num_results

\* A lookup that asks for as many hits as results.
FetchCountExact(num_results, all_ids) == Min(num_results, Len(all_ids))

\* n_results=min(num_results * 4, len(all_ids))
FetchCount(num_results, all_ids) ==
    Min(num_results * OverfetchFactor, Len(all_ids))

RECURSIVE Aggregate(_, _, _, _, _, _, _, _)

\* The loop over the raw hits from hit i on.  raised is the exception that
\* leaves the loop, or "none"; from[a] is the hit that produced result a.
Aggregate(st, ids, distances, num_results, i, seen_cards, results, from) ==
    IF i > Len(ids)
    THEN [raised |-> "none", results |-> results, from |-> from]
    ELSE LET card_id == StripSlot(ids[i])
         IN IF AlreadySeen(card_id, seen_cards)
            THEN Aggregate(st, ids, distances, num_results, i + 1,
                           seen_cards, results, from)
            ELSE LET seen2 == seen_cards \cup {card_id}
                     card_data == get_card_by_id(st, card_id)
                 IN IF card_data.raised # "none"
                    THEN [raised |-> card_data.raised, results |-> results,
                          from |-> from]
                    ELSE LET loaded ==
                                 JsonLoads(Get(card_data.metadata, "source_json",
                                               EmptyJsonText))
                         IN IF ~loaded.ok
                            THEN Aggregate(st, ids, distances, num_results,
                                           i + 1, seen2, results, from)
                            ELSE LET result ==
                                         [metadata |-> card_data.metadata,
                                          distance |-> HitDistance(distances, i),
                                          extracted_info |->
                                              Get(loaded.val, "extracted_info",
                                                  EmptyDict)]
                                     results2 == Append(results, result)
                                     from2 == Append(from, i)
                                 IN IF EnoughResults(results2, num_results)
                                    THEN [raised |-> "none",
                                          results |-> results2, from |-> from2]
                                    ELSE Aggregate(st, ids, distances,
                                                   num_results, i + 1, seen2,
                                                   results2, from2)

\* What one call of search_cards does: ret is the returned list, caught the
\* exception the outer handler swallowed (or "none"), queryIssued whether
\* collection.query ran, embedCalls the calls of the embedding function.
SearchOutcome(ret, caught, queryIssued, hits, distances, from) ==
    [results |-> ret, caught |-> caught, queryIssued |-> queryIssued,
     embedCalls |-> IF queryIssued THEN 1 ELSE 0,
     hits |-> hits, distances |-> distances, from |-> from]

search_cards(st, up, num_results, q) ==
    IF ~up
    THEN SearchOutcome(<<>>, "StoreError", FALSE, <<>>, <<>>, <<>>)
    ELSE LET all_ids == [j \in 1..Len(st) |-> st[j].id]
         IN IF NoDocuments(all_ids)
            THEN SearchOutcome(<<>>, "none", FALSE, <<>>, <<>>, <<>>)
            ELSE LET res == CollectionQuery(st, FetchCount(num_results, all_ids),
                                            q)
                     agg == Aggregate(st, res.ids, res.distances, num_results,
                                      1, {}, <<>>, <<>>)
                 IN IF agg.raised # "none"
                    THEN SearchOutcome(<<>>, agg.raised, TRUE, res.ids,
                                       res.distances, <<>>)
                    ELSE SearchOutcome(agg.results, "none", TRUE, res.ids,
                                       res.distances, agg.from)

(***************************************************************************)
(* State.                                                                  *)
(*   store    the rows of the collection "business_cards"                  *)
(*   storeUp  whether the calls to the vector store succeed                *)
(*   added    the Records add_business_card has returned normally for      *)
(*   last     the last call: its operation, argument, the exception that   *)
(*            left it (raised, or "none"), its return value, and what it   *)
(*            met (again: the Record had been added before; collided: the  *)
(*            identity was stored with other metadata; out: the account of *)
(*            a search)                                                    *)
(***************************************************************************)
Call(op, arg, raised, ret, again, collided, storeFailed, out) ==
    [op |-> op, arg |-> arg, raised |-> raised, ret |-> ret, again |-> again,
     collided |-> collided, storeFailed |-> storeFailed, out |-> out]

NoCall == Call("none", <<>>, "none", <<>>, FALSE, FALSE, FALSE, <<>>)

Init ==
    /\ store = <<>>
    /\ storeUp = TRUE
    /\ added = {}
    /\ last = NoCall

\* add_business_card(card_json)
AddBusinessCard(card_json) ==
    LET processed == process_business_card(card_json)
    IN IF processed.raised # "none"
       THEN /\ last' = Call("add", card_json, processed.raised, <<>>,
                            card_json \in added, FALSE, FALSE, <<>>)
            /\ UNCHANGED <<store, storeUp, added>>
       ELSE LET card_id == CardId(processed.metadata)
                ids == FragmentIds(card_id)
                metadatas == [j \in 1..Len(processed.documents) |->
                                 processed.metadata]
                after == CollectionAdd(store, ids, processed.documents,
                                       metadatas)
                collided == \E j \in 1..Len(store) :
                                /\ store[j].id \in Range(ids)
                                /\ store[j].metadata # processed.metadata
            IN IF ~storeUp
               THEN /\ last' = Call("add", card_json, "StoreError", <<>>,
                                    card_json \in added, collided, TRUE, <<>>)
                    /\ UNCHANGED <<store, storeUp, added>>
               ELSE /\ Len(after) <= MaxCards * NumSlots
                    /\ store' = after
                    /\ added' = added \cup {card_json}
                    /\ last' = Call("add", card_json, "none", card_id,
                                    card_json \in added, collided, FALSE, <<>>)
                    /\ UNCHANGED storeUp

\* The identities get_card_by_id is asked for.
KnownCardIds ==
    {CardId(Composed[r].metadata) :
        r \in {x \in Records : Composed[x].raised = "none"}}

\* get_card_by_id(card_id), called from outside the search
GetCardById(card_id) ==
    /\ last' = IF ~storeUp
               THEN Call("get", card_id, "StoreError", <<>>, FALSE, FALSE,
                         TRUE, <<>>)
               ELSE LET card == get_card_by_id(store, card_id)
                    IN Call("get", card_id, card.raised, card, FALSE, FALSE,
                            FALSE, <<>>)
    /\ UNCHANGED <<store, storeUp, added>>

\* search_cards(query, num_results); q is the ranking the query produces.
\* The handler returns normally whatever happens inside its try block.
SearchCards(num_results, q) ==
    /\ LET out == search_cards(store, storeUp, num_results, q)
       IN last' = Call("search", num_results, "none", out.results, FALSE,
                       FALSE, out.caught = "StoreError",
                       [out EXCEPT !.results = <<>>])
    /\ UNCHANGED <<store, storeUp, added>>

Next ==
    \/ \E card_json \in Records : AddBusinessCard(card_json)
    \/ \E card_id \in KnownCardIds : GetCardById(card_id)
    \/ \E num_results \in 1..MaxNumResults, q \in Queries(store) :
           SearchCards(num_results, q)

Spec == Init /\ [][Next]_vars

(***************************************************************************)
(* The program next to a store it does not control: the persistent         *)
(* collection may exist before the program starts, holding rows this       *)
(* program did not write, and the store may stop answering.                *)
(***************************************************************************)
\* A source_json cut short: json.loads raises on it.
TruncatedJson == <<"{", Quote, "image_metadata", Quote, ":">>

MalformedMetadata ==
    [MetadataOf(RecAda) EXCEPT !.name = <<"Mal">>, !.image_hash = <<"h9">>,
                               !.source_json = TruncatedJson]

MalformedCardRows ==
    LET ids == FragmentIds(CardId(MalformedMetadata))
    IN NewRows(ids, Documents(RecAda), [j \in 1..NumSlots |-> MalformedMetadata])

\* An add cut short between its rows: the card of RecBob with its first two
\* fragments only.
PartialCardRows ==
    LET metadata == Composed[RecBob].metadata
        rows == NewRows(FragmentIds(CardId(metadata)), Composed[RecBob].documents,
                        [j \in 1..NumSlots |-> metadata])
    IN SubSeq(rows, 1, 2)

ExistingCollections == {<<>>, MalformedCardRows, PartialCardRows}

InitExisting ==
    /\ store \in ExistingCollections
    /\ storeUp = TRUE
    /\ added = {}
    /\ last = NoCall

StoreGoesDown ==
    /\ storeUp
    /\ storeUp' = FALSE
    /\ UNCHANGED <<store, added, last>>

StoreComesUp ==
    /\ ~storeUp
    /\ storeUp' = TRUE
    /\ UNCHANGED <<store, added, last>>

NextFault ==
    \/ \E card_json \in Records : AddBusinessCard(card_json)
    \/ \E card_id \in KnownCardIds : GetCardById(card_id)
    \/ \E num_results \in 1..MaxNumResults, q \in Queries(store) :
           SearchCards(num_results, q)
    \/ StoreGoesDown
    \/ StoreComesUp

SpecFault == InitExisting /\ [][NextFault]_vars

(***************************************************************************)
(* Properties.                                                             *)
(***************************************************************************)
IsSearch == last.op = "search"

IsAdd == last.op = "add"

\* The CardIdentity of the hit that produced result a of the last search.
HitIdentity(a) == StripSlot(last.out.hits[last.out.from[a]])

\* The identity a result's own metadata spells.
ResultIdentity(r) ==
    IF HasKey(r.metadata, "name") /\ HasKey(r.metadata, "image_hash")
    THEN CardId(r.metadata)
    ELSE <<>>

\* Some hit before the one that produced result a belongs to a card emitted
\* earlier and is not the hit that produced it: a duplicate was passed over.
DuplicateSkippedBefore(a) ==
    \E i \in 1..(last.out.from[a] - 1) :
        \E b \in 1..(a - 1) :
            /\ i # last.out.from[b]
            /\ StripSlot(last.out.hits[i]) = HitIdentity(b)

\* C1: search_cards never returns two results of the same CardIdentity,
\* the identity being the hit's fragment identifier without its _{slot}.
C1_NoTwoResultsOfOneCard ==
    IsSearch =>
        \A a, b \in 1..Len(last.ret) :
            a # b => /\ HitIdentity(a) # HitIdentity(b)
                     /\ ResultIdentity(last.ret[a]) # ResultIdentity(last.ret[b])

\* C1 witness: two results were returned and a further fragment of the first
\* card lay among the hits before the second.
C1_Witness ==
    /\ IsSearch
    /\ Len(last.ret) >= 2
    /\ DuplicateSkippedBefore(2)

\* C2: with the raw hits in ascending distance, the results of search_cards
\* are in non-decreasing distance.
C2_ResultsAscending ==
    IsSearch =>
        \A a \in 1..(Len(last.ret) - 1) :
            last.ret[a].distance <= last.ret[a + 1].distance

\* C2 witness: two results of different distance, with a skipped duplicate
\* between them.
C2_Witness ==
    /\ IsSearch
    /\ Len(last.ret) >= 2
    /\ last.ret[1].distance < last.ret[2].distance
    /\ last.out.from[2] > last.out.from[1] + 1

\* C3: add_business_card of a Record that was added before leaves the store
\* as it was: the same rows, no second copy of an identifier, no growth.
C3_AddIsIdempotent ==
    [][(last'.op = "add" /\ last'.raised = "none" /\ last'.again)
           => store' = store]_vars

\* C3 witness: a Record has been added a second time.
C3_Witness == IsAdd /\ last.raised = "none" /\ last.again /\ Len(store) > 0

\* C4, as claimed: when the identity of the added Record was already stored
\* with other content, get_card_by_id afterwards returns the new Record.
C4_OverwriteOnCollision ==
    (IsAdd /\ last.raised = "none" /\ last.collided) =>
        LET card == get_card_by_id(store, last.ret)
        IN /\ card.original_json = last.arg
           /\ card.metadata = process_business_card(last.arg).metadata

\* No other Record of the same identity has been added.
AloneInIdentity(r) ==
    \A r2 \in added :
        CardId(process_business_card(r2).metadata)
            = CardId(process_business_card(r).metadata) => r2 = r

\* C5: once add_business_card(record) has returned, get_card_by_id of its
\* identity gives a source_json that deserializes to the record, whatever
\* cards of other identities were added before or after.
C5_RoundTrip ==
    \A r \in added :
        AloneInIdentity(r) =>
            LET card == get_card_by_id(
                            store, CardId(process_business_card(r).metadata))
            IN /\ card.raised = "none"
               /\ card.found
               /\ card.original_json = r
               /\ JsonLoads(card.metadata.source_json).val = r

\* C5 witness: get_card_by_id returned a Record that was added first, with a
\* card of another identity added after it.
C5_Witness ==
    /\ last.op = "get"
    /\ last.raised = "none"
    /\ last.ret.found
    /\ last.ret.original_json \in added
    /\ Len(store) > NumSlots
    /\ store[1].id \in Range(FragmentIds(last.arg))

\* C6: search_cards on a store without fragments returns the empty list as
\* a value, issues no query and does not call the embedding function.
C6_EmptyStoreShortCircuit ==
    (IsSearch /\ Len(store) = 0) =>
        /\ last.raised = "none"
        /\ last.ret = <<>>
        /\ ~last.out.queryIssued
        /\ last.out.embedCalls = 0

\* C6 witness: a search ran on the empty store.
C6_Witness == IsSearch /\ Len(store) = 0 /\ last.out.caught = "none"

\* A list-valued contact field is present and empty.
HasEmptyContactList(card_json) ==
    \/ Len(ContactList(card_json, "emails")) = 0
    \/ Len(ContactList(card_json, "addresses")) = 0

\* C7, as claimed: on every Record, nested keys absent or not,
\* process_business_card does not raise and gives 4 fragments and a metadata
\* mapping holding every declared key.  (Records with an empty list are
\* C8's.)
C7_ComposeNeverRaises ==
    (IsAdd /\ ~HasEmptyContactList(last.arg)) =>
        LET processed == process_business_card(last.arg)
        IN /\ last.raised = "none"
           /\ processed.raised = "none"
           /\ Len(processed.documents) = NumSlots
           /\ DOMAIN processed.metadata = MetadataKeys

\* C8, as claimed: a Record whose emails and addresses are present and empty
\* is indexed, its email and location stored as empty strings.
C8_EmptyListsIndexed ==
    (IsAdd /\ HasEmptyContactList(last.arg)
           /\ ~Missing2(PrimaryOf(last.arg), "name", "value")
           /\ ~Missing2(PrimaryOf(last.arg), "job_title", "value")
           /\ HasKey(PrimaryOf(last.arg), "company")) =>
        /\ last.raised = "none"
        /\ process_business_card(last.arg).metadata.email = <<>>
        /\ process_business_card(last.arg).metadata.location = <<>>

\* The stored card of hit i of the last search parses.
WellFormedHit(i) ==
    get_card_by_id(store, StripSlot(last.out.hits[i])).raised = "none"

\* The positions of the hits of the last search whose card parses.
WellFormedHits ==
    LET Parses(i) == WellFormedHit(i)
    IN SelectSeq([i \in 1..Len(last.out.hits) |-> i], Parses)

\* The results of the aggregation over the well-formed hits alone.
ResultsSkippingMalformed ==
    LET keep == WellFormedHits
    IN Aggregate(store,
                 [j \in 1..Len(keep) |-> last.out.hits[keep[j]]],
                 [j \in 1..Len(keep) |-> last.out.distances[keep[j]]],
                 last.arg, 1, {}, <<>>, <<>>).results

\* C9, as claimed: a card whose source_json does not parse is skipped and
\* the search returns what the remaining hits give.
C9_MalformedCardSkipped ==
    (IsSearch /\ last.out.queryIssued) => last.ret = ResultsSkippingMalformed

\* C10, as claimed: a failed call to the vector store leaves the operation
\* as a fault, and never as an empty result list.
C10_StoreFailurePropagates ==
    last.storeFailed => last.raised = "StoreError"

\* The fragment identifiers of card_id that resolve in the store.
ResolvedSlots(st, card_id) ==
    {j \in 1..NumSlots : FragmentIds(card_id)[j] \in StoredIds(st)}

\* The store with the missing fragments of card_id written, each with the
\* document and metadata of the first fragment that resolves.
WithAllSlots(st, card_id) ==
    LET first == CHOOSE j \in 1..Len(st) :
                     /\ st[j].id \in Range(FragmentIds(card_id))
                     /\ \A k \in 1..(j - 1) :
                            st[k].id \notin Range(FragmentIds(card_id))
    IN CollectionAdd(st, FragmentIds(card_id),
                     [j \in 1..NumSlots |-> st[first].document],
                     [j \in 1..NumSlots |-> st[first].metadata])

\* C11: when at least one but fewer than 4 of the fragment identifiers of
\* card_id resolve, get_card_by_id(card_id) returns a value that differs from
\* the one it returns for the same card with all 4 fragments stored; when
\* none resolves it returns the empty-card sentinel without raising.
C11_PartialCardReported ==
    (last.op = "get" /\ ~last.storeFailed) =>
        LET n == Cardinality(ResolvedSlots(store, last.arg))
        IN /\ (n = 0) => (last.raised = "none" /\ last.ret = EmptyCard)
           /\ (n >= 1 /\ n < NumSlots) =>
                  last.ret # get_card_by_id(WithAllSlots(store, last.arg),
                                            last.arg)

\* The stored rows of one card identity.
RowsOf(st, card_id) == {j \in 1..Len(st) : StripSlot(st[j].id) = card_id}

C13_IdentifiersWhole ==
    /\ \A j \in 1..Len(store) :
           LET identity == store[j].metadata.name \o <<"-">>
                               \o store[j].metadata.image_hash
           IN /\ \E i \in 0..3 : store[j].id = identity \o <<"_", ToString(i)>>
              /\ \A i \in 0..3 :
                     \E k \in 1..Len(store) :
                         store[k].id = identity \o <<"_", ToString(i)>>
    /\ Cardinality(StoredIds(store)) = Len(store)
    /\ Len(store) = 4 * Cardinality({StripSlot(id) : id \in StoredIds(store)})

\* Two cards are stored, the last add reused a stored identity with other
\* content, and an earlier add may have raised.
C13_Witness ==
    /\ IsAdd
    /\ last.raised = "none"
    /\ last.collided
    /\ Len(store) = 2 * NumSlots

\* The extracted name and the image content hash of a Record.
NameOfRecord(card_json) == card_json.extracted_info.primary_info.name.value

HashOfRecord(card_json) == card_json.image_metadata.hash

\* C14: the identity add_business_card returns depends on the extracted name
\* and the image hash only: it is the identity of every stored card of the
\* same name and hash, and of no stored card of another hash, a card of the
\* same name included.
C14_IdentityFromNameAndHash ==
    (IsAdd /\ last.raised = "none") =>
        \A j \in 1..Len(store) :
            LET sameName == store[j].metadata.name = NameOfRecord(last.arg)
                sameHash == store[j].metadata.image_hash
                                = HashOfRecord(last.arg)
            IN /\ (sameName /\ sameHash) => StripSlot(store[j].id) = last.ret
               /\ ~sameHash => StripSlot(store[j].id) # last.ret

\* A Record is added while the store holds a card of its name under another
\* image hash, and another Record of its name and hash was added before.
C14_Witness ==
    /\ IsAdd
    /\ last.raised = "none"
    /\ \E j \in 1..Len(store) :
           /\ store[j].metadata.name = NameOfRecord(last.arg)
           /\ store[j].metadata.image_hash # HashOfRecord(last.arg)
    /\ \E r \in added \ {last.arg} :
           /\ NameOfRecord(r) = NameOfRecord(last.arg)
           /\ HashOfRecord(r) = HashOfRecord(last.arg)

\* The hits that are the first of their card, in hit order.
FirstHitsOfCards(hits) ==
    LET IsFirst(i) == \A j \in 1..(i - 1) :
                          StripSlot(hits[j]) # StripSlot(hits[i])
    IN SelectSeq([i \in 1..Len(hits) |-> i], IsFirst)

\* C15: the results of search_cards are the first num_results distinct card
\* identities in hit order, fewer when the hits run out, each with the
\* distance of the earliest hit of its card; later hits of an emitted card
\* change neither its distance nor its position.
C15_FirstHitWins ==
    (IsSearch /\ last.out.queryIssued /\ last.out.caught = "none") =>
        LET first == FirstHitsOfCards(last.out.hits)
            n == Min(last.arg, Len(first))
        IN /\ Len(last.ret) = n
           /\ last.out.from = SubSeq(first, 1, n)
           /\ \A a \in 1..Len(last.ret) :
                  /\ ResultIdentity(last.ret[a]) = StripSlot(last.out.hits[first[a]])
                  /\ last.ret[a].distance = last.out.distances[first[a]]

\* The search stopped at the number asked for, having passed over a later
\* hit of its first card, with farther hits of emitted cards left unread.
C15_Witness ==
    /\ IsSearch
    /\ last.arg = 2
    /\ Len(last.ret) = 2
    /\ DuplicateSkippedBefore(2)
    /\ last.out.from[2] < Len(last.out.hits)
    /\ last.out.distances[Len(last.out.hits)] > last.ret[2].distance

\* The cards in the store, by identity.
CardsIn(st) == {StripSlot(id) : id \in StoredIds(st)}

\* The store after add_business_card(card_json) returned normally.
StoreAfterAdd(st, card_json) ==
    LET processed == process_business_card(card_json)
    IN CollectionAdd(st, FragmentIds(CardId(processed.metadata)),
                     processed.documents,
                     [j \in 1..Len(processed.documents) |-> processed.metadata])

RECURSIVE StoresBuiltFrom(_, _)

\* The stores that at most n more successful add_business_card calls make
\* of st.
StoresBuiltFrom(st, n) ==
    IF n = 0 THEN {st}
    ELSE LET before == StoresBuiltFrom(st, n - 1)
             wellFormed == {r \in Records : Composed[r].raised = "none"}
         IN before \cup {StoreAfterAdd(b, r) : b \in before, r \in wellFormed}

\* search_cards(q, num_results) on st returns fewer results than asked for
\* although st holds at least that many cards.
UnderFills(st, num_results, q) ==
    /\ Cardinality(CardsIn(st)) >= num_results
    /\ Len(search_cards(st, TRUE, num_results, q).results) < num_results

\* C16 as stated: starting from the empty collection, add_business_card
\* calls of well-formed Records build a store for which some query and some
\* num_results make search_cards under-fill.
C16_UnderFillReachable ==
    (store = <<>>) =>
        \E st \in StoresBuiltFrom(store, MaxCards) :
            \E num_results \in 1..MaxNumResults, q \in Queries(st) :
                UnderFills(st, num_results, q)

\* C16 amended: with n_results = min(num_results * 4, len(all_ids)) and every
\* card holding its 4 fragments, search_cards never returns fewer than
\* num_results results when the store holds at least num_results cards.
C16_NoUnderFill ==
    (IsSearch /\ last.out.caught = "none"
        /\ Cardinality(CardsIn(store)) >= last.arg) =>
        Len(last.ret) >= last.arg

\* Two results were asked for and returned although the 4 nearest hits all
\* belong to one card: the second card came from the over-fetched hits.
C16_Witness ==
    /\ IsSearch
    /\ last.arg = 2
    /\ Len(last.ret) = 2
    /\ last.out.from[2] = NumSlots + 1
    /\ \A i \in 1..NumSlots :
           StripSlot(last.out.hits[i]) = StripSlot(last.out.hits[1])

\* The identities add_business_card has returned.
AddedIdentities == {CardId(Composed[r].metadata) : r \in added}

\* The name and image hash of the card the stored row fragment_id belongs to.
CardOfRow(fragment_id) ==
    LET j == CHOOSE k \in 1..Len(store) : store[k].id = fragment_id
    IN <<store[j].metadata.name, store[j].metadata.image_hash>>

\* C17: stripping the slot suffix of f"{id}_{i}" at the last underscore gives
\* back id for every added identity, names with underscores included, and
\* every slot; two stored fragment identifiers are equal only for one card
\* and one slot; so the hits of two cards never strip to one identity, and
\* every identity search_cards strips out of a hit is one that was added and
\* that get_card_by_id resolves.
C17_IdentifierRoundTrip ==
    /\ \A id \in AddedIdentities : \A i \in 0..(NumSlots - 1) :
           StripSlot(FragmentId(id, i)) = id
    /\ \A j, k \in 1..Len(store) :
           /\ store[j].id = store[k].id => j = k
           /\ StripSlot(store[j].id) = StripSlot(store[k].id) =>
                  CardOfRow(store[j].id) = CardOfRow(store[k].id)
    /\ IsSearch =>
           \A i \in 1..Len(last.out.hits) :
               /\ StripSlot(last.out.hits[i]) \in AddedIdentities
               /\ get_card_by_id(store, StripSlot(last.out.hits[i])).found

\* A search returned two cards, one of them a card whose name holds an
\* underscore.
C17_Witness ==
    /\ IsSearch
    /\ Len(last.ret) = 2
    /\ \E a \in 1..2 : "_" \in Range(HitIdentity(a))
    /\ ResultIdentity(last.ret[1]) # ResultIdentity(last.ret[2])

====
